---- MODULE Spec2Model ----
(***************************************************************************)
(* A model of remix-astwalker/src/sourceMappings.ts: the line-break table  *)
(* built by the SourceMappings constructor, the offset -> line/column      *)
(* conversion, the "s:l:f" range-string decoder and the two AST lookups.   *)
(*                                                                         *)
(* JavaScript strings are sequences of one-character strings, arrays are   *)
(* sequences read with a 0-based index, and a JavaScript number is a       *)
(* record [nan, n] so that NaN and its comparison rules are explicit.      *)
(***************************************************************************)
EXTENDS Integers, Sequences, FiniteSets

VARIABLES source, lineBreaks, pos, pc, ast, src, astNodeType, position, last, first

vars == <<source, lineBreaks, pos, pc, ast, src, astNodeType, position, last, first>>

----------------------------------------------------------------------------
(* Bounds of the model.                                                    *)

\* longest source text of the construction specification
MaxLen == 3
\* largest offset asked of lineColPositionFromOffset beyond MaxLen
MaxPast == 2
\* longest range string enumerated over SrcAlphabet
MaxSrcLen == 5
\* largest start, length and file index that is serialized
MaxNum == 11
\* most nodes in an enumerated AST
MaxNodes == 3

----------------------------------------------------------------------------
(* JavaScript values.                                                      *)

Num(n) == [nan |-> FALSE, n |-> n]
NaN == [nan |-> TRUE, n |-> 0]

Undefined == [t |-> "undefined", s |-> <<>>]
Null == [t |-> "null", s |-> <<>>]
Str(s) == [t |-> "string", s |-> s]

\* x >= 0 on numbers: false when x is NaN
GreaterEqZero(x) == ~x.nan /\ x.n >= 0

\* a == b on numbers: false when either is NaN
NumEq(a, b) == ~a.nan /\ ~b.nan /\ a.n = b.n

\* !v on undefined, null or a string
IsFalsy(v) == v.t \in {"undefined", "null"} \/ (v.t = "string" /\ v.s = <<>>)

\* v == undefined on undefined, null or a string
LooseEqUndefined(v) == v.t \in {"undefined", "null"}

\* a === b on undefined, null or strings
StrictEq(a, b) == a.t = b.t /\ a.s = b.s

\* array[i] with a 0-based index: undefined outside the array
StrAt(array, i) == IF i >= 0 /\ i < Len(array) THEN Str(array[i + 1]) ELSE Undefined

\* String(v) for undefined, null or a string
JsToString(v) ==
  IF v.t = "undefined" THEN <<"u", "n", "d", "e", "f", "i", "n", "e", "d">>
  ELSE IF v.t = "null" THEN <<"n", "u", "l", "l">>
  ELSE v.s

Digits == {"0", "1", "2", "3", "4", "5", "6", "7", "8", "9"}
WhiteSpace == {" ", "\t", "\n", "\r", "\f"}

DigitVal(c) ==
  CASE c = "0" -> 0 [] c = "1" -> 1 [] c = "2" -> 2 [] c = "3" -> 3 [] c = "4" -> 4
    [] c = "5" -> 5 [] c = "6" -> 6 [] c = "7" -> 7 [] c = "8" -> 8 [] c = "9" -> 9

Drop(s, k) == SubSeq(s, k + 1, Len(s))

\* the number of leading characters of s that lie in set
RECURSIVE PrefixLen(_, _)
PrefixLen(s, set) ==
  IF s = <<>> \/ s[1] \notin set THEN 0 ELSE 1 + PrefixLen(Tail(s), set)

\* the value of a sequence of decimal digits, read left to right
RECURSIVE DigitsValue(_, _)
DigitsValue(s, acc) ==
  IF s = <<>> THEN acc ELSE DigitsValue(Tail(s), 10 * acc + DigitVal(s[1]))

\* String.prototype.split(':'): the fields between the colons, at least one
RECURSIVE split(_)
split(s) ==
  IF \A i \in 1..Len(s) : s[i] # ":"
    THEN <<s>>
    ELSE LET k == CHOOSE i \in 1..Len(s) : s[i] = ":" /\ \A j \in 1..(i - 1) : s[j] # ":"
         IN  <<SubSeq(s, 1, k - 1)>> \o split(Drop(s, k))

\* parseInt(v, 10): leading white space is skipped, one sign is read, then
\* the longest run of decimal digits; what follows the digits is ignored and
\* no digit at all gives NaN
parseInt(v) ==
  LET str == JsToString(v)
      trimmed == Drop(str, PrefixLen(str, WhiteSpace))
      signed == trimmed # <<>> /\ trimmed[1] \in {"+", "-"}
      sign == IF trimmed # <<>> /\ trimmed[1] = "-" THEN -1 ELSE 1
      body == IF signed THEN Tail(trimmed) ELSE trimmed
      n == PrefixLen(body, Digits)
  IN  IF n = 0 THEN NaN ELSE Num(sign * DigitsValue(SubSeq(body, 1, n), 0))

\* String.prototype.indexOf('\n', from): the first offset >= from holding a
\* line break, -1 when there is none
indexOf(s, from) ==
  LET hits == {i \in 0..(Len(s) - 1) : i >= from /\ s[i + 1] = "\n"}
  IN  IF hits = {} THEN -1 ELSE CHOOSE i \in hits : \A j \in hits : i <= j

----------------------------------------------------------------------------
(* The offset -> position conversion and the range-string decoder.         *)

\* remix-lib util.findLowerBound: the largest index i with array[i] <= target
\* in an array sorted increasingly, -1 when there is none
findLowerBound(target, array) ==
  LET below == {i \in 0..(Len(array) - 1) : array[i + 1] <= target}
  IN  IF below = {} THEN -1 ELSE CHOOSE i \in below : \A j \in below : j <= i

\* lineColPositionFromOffset with line 25 reading lineBreaks[line - 1] only
lineColPositionFromOffsetNoSkip(offset, breaks) ==
  LET found == findLowerBound(offset, breaks)
      line == IF found >= 0 /\ found < Len(breaks) /\ breaks[found + 1] = offset
                THEN found
                ELSE found + 1
      beginColumn == IF line = 0 THEN 0 ELSE breaks[line]
  IN  [line |-> line + 1, character |-> (offset - beginColumn) + 1]

\* lineColPositionFromOffset with the test of line 22 inverted
lineColPositionFromOffsetInverted(offset, breaks) ==
  LET found == findLowerBound(offset, breaks)
      line == IF found >= 0 /\ found < Len(breaks) /\ breaks[found + 1] = offset
                THEN found + 1
                ELSE IF found < 0 THEN 0 ELSE found
      beginColumn == IF line = 0 THEN 0 ELSE breaks[line] + 1
  IN  [line |-> line + 1, character |-> (offset - beginColumn) + 1]

lineColPositionFromOffset(offset, breaks) ==
  LET found == findLowerBound(offset, breaks)
      line == IF found >= 0 /\ found < Len(breaks) /\ breaks[found + 1] = offset
                THEN found
                ELSE found + 1
      beginColumn == IF line = 0 THEN 0 ELSE breaks[line] + 1
  IN  [line |-> line + 1, character |-> (offset - beginColumn) + 1]

\* sourceLocationFromSrc with file read from split[1]
sourceLocationFromSrcFileOfLength(s) ==
  LET fields == split(s)
  IN  [start |-> parseInt(StrAt(fields, 0)),
       length |-> parseInt(StrAt(fields, 1)),
       file |-> parseInt(StrAt(fields, 1))]

sourceLocationFromSrc(s) ==
  LET fields == split(s)
  IN  [start |-> parseInt(StrAt(fields, 0)),
       length |-> parseInt(StrAt(fields, 1)),
       file |-> parseInt(StrAt(fields, 2))]

\* SourceMappings constructor, lines 77-81: the whole scan loop from the loop
\* variable p with the offsets pushed so far
RECURSIVE scanFrom(_, _, _)
scanFrom(text, p, pushed) ==
  IF p >= 0 THEN scanFrom(text, indexOf(text, p + 1), Append(pushed, p)) ELSE pushed

\* this.lineBreaks as the constructor leaves it for the source text
constructor(text) == scanFrom(text, indexOf(text, 0), <<>>)

NullRange == [start |-> Null, end |-> Null]

\* srcToLineColumnRange with the test of line 146 on start alone
srcToLineColumnRangeStartOnly(s, breaks) ==
  LET sourceLocation == sourceLocationFromSrc(s)
  IN  IF GreaterEqZero(sourceLocation.start)
        THEN [start |-> lineColPositionFromOffset(sourceLocation.start.n, breaks),
              end |-> lineColPositionFromOffset(
                        sourceLocation.start.n + sourceLocation.length.n, breaks)]
        ELSE NullRange

\* srcToLineColumnRange with the test of line 146 extended to file
srcToLineColumnRangeWithFile(s, breaks) ==
  LET sourceLocation == sourceLocationFromSrc(s)
  IN  IF /\ GreaterEqZero(sourceLocation.start)
         /\ GreaterEqZero(sourceLocation.length)
         /\ GreaterEqZero(sourceLocation.file)
        THEN [start |-> lineColPositionFromOffset(sourceLocation.start.n, breaks),
              end |-> lineColPositionFromOffset(
                        sourceLocation.start.n + sourceLocation.length.n, breaks)]
        ELSE NullRange

srcToLineColumnRange(s, breaks) ==
  LET sourceLocation == sourceLocationFromSrc(s)
  IN  IF GreaterEqZero(sourceLocation.start) /\ GreaterEqZero(sourceLocation.length)
        THEN [start |-> lineColPositionFromOffset(sourceLocation.start.n, breaks),
              end |-> lineColPositionFromOffset(
                        sourceLocation.start.n + sourceLocation.length.n, breaks)]
        ELSE NullRange

----------------------------------------------------------------------------
(* AST nodes and the two lookups.                                          *)

\* an AST node: an object with an id, an optional nodeType, an optional src
\* and its child nodes
AstNode(id, nodeType, srcField, children) ==
  [t |-> "object", id |-> id, nodeType |-> nodeType, src |-> srcField,
   children |-> children]

\* astWalker isAstNode: the node-shape check, a non-null object
isAstNode(node) == node.t = "object"

\* astWalker walkFull: the nodes of the tree in the order the callback sees
\* them, depth first, a node before its children; nothing for a root that is
\* not a node
RECURSIVE walkFull(_)
RECURSIVE walkChildren(_)
walkFull(node) ==
  IF isAstNode(node) THEN <<node>> \o walkChildren(node.children) ELSE <<>>
walkChildren(children) ==
  IF children = <<>> THEN <<>>
  ELSE walkFull(Head(children)) \o walkChildren(Tail(children))

sourceLocationFromAstNode(astNode) ==
  IF isAstNode(astNode) /\ ~IsFalsy(astNode.src)
    THEN sourceLocationFromSrc(astNode.src.s)
    ELSE Null

\* lines 97-99 and 124-126: the node carries a location with the start and
\* the length of the location asked for
locationMatches(node, location) ==
  LET nodeLocation == sourceLocationFromAstNode(node)
  IN  /\ nodeLocation # Null
      /\ NumEq(nodeLocation.start, location.start)
      /\ NumEq(nodeLocation.length, location.length)

\* the callback of nodesAtPosition, on the list found so far
nodesAtPositionCallback(found, node, nodeType, location) ==
  IF /\ locationMatches(node, location)
     /\ (IsFalsy(nodeType) \/ StrictEq(nodeType, node.nodeType))
    THEN Append(found, node)
    ELSE found

\* the callback of findNodeAtSourceLocation, on the node found so far
findNodeAtSourceLocationCallback(found, node, nodeType, location) ==
  IF /\ locationMatches(node, location)
     /\ (LooseEqUndefined(nodeType) \/ StrictEq(nodeType, node.nodeType))
    THEN node
    ELSE found

\* astWalker.walkFull(ast, callback) of line 106: the callback of
\* nodesAtPosition applied to the visited nodes in order
RECURSIVE nodesAtPositionWalk(_, _, _, _)
nodesAtPositionWalk(visited, found, nodeType, location) ==
  IF visited = <<>> THEN found
  ELSE nodesAtPositionWalk(Tail(visited),
         nodesAtPositionCallback(found, Head(visited), nodeType, location),
         nodeType, location)

\* astWalker.walkFull(ast, callback) of line 134: the callback of
\* findNodeAtSourceLocation applied to the visited nodes in order
RECURSIVE findNodeAtSourceLocationWalk(_, _, _, _)
findNodeAtSourceLocationWalk(visited, found, nodeType, location) ==
  IF visited = <<>> THEN found
  ELSE findNodeAtSourceLocationWalk(Tail(visited),
         findNodeAtSourceLocationCallback(found, Head(visited), nodeType, location),
         nodeType, location)

nodesAtPosition(nodeType, location, root) ==
  nodesAtPositionWalk(walkFull(root), <<>>, nodeType, location)

\* findNodeAtSourceLocation with found of line 119 starting as the root
findNodeAtSourceLocationFromRoot(nodeType, location, root) ==
  findNodeAtSourceLocationWalk(walkFull(root), root, nodeType, location)

findNodeAtSourceLocation(nodeType, location, root) ==
  findNodeAtSourceLocationWalk(walkFull(root), Null, nodeType, location)

----------------------------------------------------------------------------
(* Inputs.                                                                 *)

SeqsUpTo(alphabet, n) == UNION {[1..k -> alphabet] : k \in 0..n}

\* source texts: a letter, a carriage return and the line break
TextAlphabet == {"a", "\r", "\n"}
Texts == SeqsUpTo(TextAlphabet, MaxLen)
Offsets == 0..(MaxLen + MaxPast)

DigitChar(d) ==
  CASE d = 0 -> "0" [] d = 1 -> "1" [] d = 2 -> "2" [] d = 3 -> "3" [] d = 4 -> "4"
    [] d = 5 -> "5" [] d = 6 -> "6" [] d = 7 -> "7" [] d = 8 -> "8" [] d = 9 -> "9"

\* a natural number in base 10, without sign or leading zero
RECURSIVE ToDecimal(_)
ToDecimal(n) ==
  IF n < 10 THEN <<DigitChar(n)>> ELSE ToDecimal(n \div 10) \o <<DigitChar(n % 10)>>

\* the range string "s:l:f"
Serialize(s, l, f) == ToDecimal(s) \o <<":">> \o ToDecimal(l) \o <<":">> \o ToDecimal(f)

\* range strings that are not of the form "s:l:f", beside the enumerated ones
OddSrcs ==
  { <<"-", "1", ":", "0", ":", "0">>,
    <<" ", "1", ":", "1", ":", "0">>,
    <<"+", "1", ":", "1", ":", "0">>,
    <<"1", ":", "1", ":", "0", ":", "7">>,
    <<"1", ":", "2", "x", ":", "0">>,
    <<"1", ":", "-", "2", ":", "0">>,
    <<"x", ":", "1", ":", "0">>,
    <<"1", ":", "1">>,
    <<"1">>,
    <<>> }

\* the range strings of the construction specification: every range within
\* Offsets, and the odd ones
RangeSrcs == {Serialize(s, l, 0) : s \in 0..MaxLen, l \in 0..MaxPast} \cup OddSrcs

\* the range strings of the codec specification: every string over the
\* alphabet up to MaxSrcLen, every serialized triple up to MaxNum, the odd ones
SrcAlphabet == {"0", "1", ":", "-", "x"}
CodecSrcs ==
  SeqsUpTo(SrcAlphabet, MaxSrcLen)
    \cup {Serialize(s, l, f) : s \in 0..MaxNum, l \in 0..MaxNum, f \in 0..MaxNum}
    \cup OddSrcs

\* "ab\ncd" of the documentation, a text of line breaks only, the empty text
CodecTexts == { <<"a", "a", "\n", "a", "a">>, <<"\n", "\n", "a", "\r", "\n">>, <<>> }

TypeA == Str(<<"A">>)
TypeB == Str(<<"B">>)
Src530 == Str(<<"5", ":", "3", ":", "0">>)
SrcX30 == Str(<<"x", ":", "3", ":", "0">>)

\* the (nodeType, src) pairs of the enumerated nodes
Labels == { <<TypeA, Src530>>, <<TypeB, Src530>>, <<TypeA, Undefined>>, <<TypeB, SrcX30>> }

\* the trees of n nodes whose ids count up from id in visiting order, and the
\* child lists of n nodes in all
RECURSIVE Trees(_, _)
RECURSIVE Forests(_, _)
Trees(n, id) ==
  {AstNode(id, lab[1], lab[2], kids) : lab \in Labels, kids \in Forests(n - 1, id + 1)}
Forests(n, id) ==
  IF n = 0 THEN {<<>>}
  ELSE UNION {{<<t>> \o f : t \in Trees(k, id), f \in Forests(n - k, id + k)} : k \in 1..n}

\* roots that are no node: null, undefined, a string
NonNodeRoots == {Null, Undefined, Str(<<"x">>)}
Asts == UNION {Trees(n, 1) : n \in 1..MaxNodes} \cup NonNodeRoots

\* node-type filters: absent, null, the empty string, two node types
Filters == {Undefined, Null, Str(<<>>), TypeA, TypeB}

Location(start, length, file) == [start |-> start, length |-> length, file |-> file]
Positions ==
  { Location(Num(5), Num(3), Num(0)), Location(Num(5), Num(3), Num(1)),
    Location(Num(5), Num(4), Num(0)), Location(Num(6), Num(3), Num(0)),
    Location(NaN, Num(3), Num(0)) }

----------------------------------------------------------------------------
(* State and operations.                                                   *)
(*   source, lineBreaks  the fields of the SourceMappings object; while    *)
(*                       the constructor runs, lineBreaks is its local     *)
(*   pos                 the loop variable of the constructor              *)
(*   pc                  "scan" inside the constructor, then "ready"       *)
(*   ast                 the caller's AST                                  *)
(*   src, astNodeType, position   the caller's arguments, where a          *)
(*                       specification fixes them at the start             *)
(*   last                the latest call: its name, arguments and result   *)
(*   first               an earlier call the caller remembers, to compare  *)
(*                       a repeated call with it                           *)

NoCall == [op |-> "none", arg |-> <<>>, result |-> <<>>, again |-> FALSE]
NotKept == [op |-> "off", arg |-> <<>>, result |-> <<>>, again |-> FALSE]
NoPosition == Location(NaN, NaN, NaN)

\* constructor, lines 73-78: the loop is entered with the first line break
Init ==
  /\ source \in Texts
  /\ lineBreaks = <<>>
  /\ pos = indexOf(source, 0)
  /\ pc = "scan"
  /\ ast = Null
  /\ src = <<>>
  /\ astNodeType = Undefined
  /\ position = NoPosition
  /\ last = NoCall
  /\ first = NotKept

\* ScanStep with the next search of line 78 starting at pos + 2
ScanStepSkipping ==
  /\ pc = "scan"
  /\ pos >= 0
  /\ lineBreaks' = Append(lineBreaks, pos)
  /\ pos' = indexOf(source, pos + 2)
  /\ UNCHANGED <<source, pc, ast, src, astNodeType, position, last, first>>

\* constructor, lines 78-80: one iteration of the scan loop
ScanStep ==
  /\ pc = "scan"
  /\ pos >= 0
  /\ lineBreaks' = Append(lineBreaks, pos)
  /\ pos' = indexOf(source, pos + 1)
  /\ UNCHANGED <<source, pc, ast, src, astNodeType, position, last, first>>

\* constructor, lines 78 and 81: the loop ends and the table is stored
ScanDone ==
  /\ pc = "scan"
  /\ pos < 0
  /\ pc' = "ready"
  /\ UNCHANGED <<source, lineBreaks, pos, ast, src, astNodeType, position, last, first>>

\* a call on the constructed object returns: the caller sees the result, notes
\* whether it repeats the call it remembers, and may remember the call if it
\* remembers none yet
Returns(op, arg, result) ==
  LET call == [op |-> op, arg |-> arg, result |-> result,
               again |-> (first.op = op /\ first.arg = arg)]
  IN  /\ last' = call
      /\ first' \in (IF first = NoCall THEN {NoCall, call} ELSE {first})

LineColPositionFromOffsetCall(offset) ==
  /\ pc = "ready"
  /\ Returns("lineColPositionFromOffset", <<offset>>,
             lineColPositionFromOffset(offset, lineBreaks))
  /\ UNCHANGED <<source, lineBreaks, pos, pc, ast, src, astNodeType, position>>

SourceLocationFromSrcCall(s) ==
  /\ pc = "ready"
  /\ Returns("sourceLocationFromSrc", <<s>>, sourceLocationFromSrc(s))
  /\ UNCHANGED <<source, lineBreaks, pos, pc, ast, src, astNodeType, position>>

SourceLocationFromAstNodeCall(node) ==
  /\ pc = "ready"
  /\ Returns("sourceLocationFromAstNode", <<node>>, sourceLocationFromAstNode(node))
  /\ UNCHANGED <<source, lineBreaks, pos, pc, ast, src, astNodeType, position>>

\* NodesAtPositionCall with found of line 93 kept from the call before
NodesAtPositionCallKeepingFound(nodeType, location) ==
  /\ pc = "ready"
  /\ Returns("nodesAtPosition", <<nodeType, location>>,
             nodesAtPositionWalk(walkFull(ast),
                                 IF last.op = "nodesAtPosition" THEN last.result ELSE <<>>,
                                 nodeType, location))
  /\ UNCHANGED <<source, lineBreaks, pos, pc, ast, src, astNodeType, position>>

NodesAtPositionCall(nodeType, location) ==
  /\ pc = "ready"
  /\ Returns("nodesAtPosition", <<nodeType, location>>,
             nodesAtPosition(nodeType, location, ast))
  /\ UNCHANGED <<source, lineBreaks, pos, pc, ast, src, astNodeType, position>>

FindNodeAtSourceLocationCall(nodeType, location) ==
  /\ pc = "ready"
  /\ Returns("findNodeAtSourceLocation", <<nodeType, location>>,
             findNodeAtSourceLocation(nodeType, location, ast))
  /\ UNCHANGED <<source, lineBreaks, pos, pc, ast, src, astNodeType, position>>

SrcToLineColumnRangeCall(s) ==
  /\ pc = "ready"
  /\ Returns("srcToLineColumnRange", <<s>>, srcToLineColumnRange(s, lineBreaks))
  /\ UNCHANGED <<source, lineBreaks, pos, pc, ast, src, astNodeType, position>>

\* Construction of the table, then conversions on it.
Next ==
  \/ ScanStep
  \/ ScanDone
  \/ \E offset \in Offsets : LineColPositionFromOffsetCall(offset)
  \/ \E s \in RangeSrcs : SrcToLineColumnRangeCall(s)

Spec == Init /\ [][Next]_vars

\* The constructor is synchronous: its loop keeps running until it ends.
FairSpec == Spec /\ WF_vars(ScanStep) /\ WF_vars(ScanDone)

\* The decoder and the range projection on one range string.
InitCodec ==
  /\ source \in CodecTexts
  /\ lineBreaks = constructor(source)
  /\ pos = -1
  /\ pc = "ready"
  /\ ast = Null
  /\ src \in CodecSrcs
  /\ astNodeType = Undefined
  /\ position = NoPosition
  /\ last = NoCall
  /\ first = NotKept

NextCodec ==
  \/ SourceLocationFromSrcCall(src)
  \/ SrcToLineColumnRangeCall(src)

SpecCodec == InitCodec /\ [][NextCodec]_vars

\* The two lookups on one AST, filter and location.
InitAst ==
  /\ source = <<>>
  /\ lineBreaks = constructor(source)
  /\ pos = -1
  /\ pc = "ready"
  /\ ast \in Asts
  /\ src = <<>>
  /\ astNodeType \in Filters
  /\ position \in Positions
  /\ last = NoCall
  /\ first = NotKept

NextAst ==
  \/ NodesAtPositionCall(astNodeType, position)
  \/ FindNodeAtSourceLocationCall(astNodeType, position)

SpecAst == InitAst /\ [][NextAst]_vars

\* The AST of the documentation, a node in a node at the same range, and a
\* second child that carries no range.
SampleAst ==
  AstNode(1, TypeA, Src530,
          << AstNode(2, TypeB, Src530, <<>>), AstNode(3, TypeA, Undefined, <<>>) >>)

CallOffsets == {0, 3}
CallSrcs == { Src530.s, <<"-", "1", ":", "0", ":", "0">> }
CallNodes == {SampleAst, SampleAst.children[1], SampleAst.children[2], Null}
CallFilters == {Null, TypeB}
CallPositions == { Location(Num(5), Num(3), Num(0)) }

\* Any sequence of calls of the six operations on one constructed object.
InitCalls ==
  /\ source \in CodecTexts
  /\ lineBreaks = constructor(source)
  /\ pos = -1
  /\ pc = "ready"
  /\ ast = SampleAst
  /\ src = <<>>
  /\ astNodeType = Undefined
  /\ position = NoPosition
  /\ last = NoCall
  /\ first = NoCall

NextCalls ==
  \/ \E offset \in CallOffsets : LineColPositionFromOffsetCall(offset)
  \/ \E s \in CallSrcs : SourceLocationFromSrcCall(s)
  \/ \E node \in CallNodes : SourceLocationFromAstNodeCall(node)
  \/ \E nodeType \in CallFilters, location \in CallPositions :
       NodesAtPositionCall(nodeType, location)
  \/ \E nodeType \in CallFilters, location \in CallPositions :
       FindNodeAtSourceLocationCall(nodeType, location)
  \/ \E s \in CallSrcs : SrcToLineColumnRangeCall(s)

SpecCalls == InitCalls /\ [][NextCalls]_vars

----------------------------------------------------------------------------
(* Properties.                                                             *)

Max(set) == CHOOSE x \in set : \A y \in set : y <= x

\* the offsets of text that hold a line break
BreakSet(text) == {i \in 0..(Len(text) - 1) : text[i + 1] = "\n"}

\* position p before position q, by line and then by character
PosLess(p, q) == p.line < q.line \/ (p.line = q.line /\ p.character < q.character)

ScanEndsWithAllBreaks ==
  /\ <>(pc = "ready")
  /\ [](pc = "ready" =>
          /\ \A i \in 1..(Len(lineBreaks) - 1) : lineBreaks[i] < lineBreaks[i + 1]
          /\ {lineBreaks[i] : i \in 1..Len(lineBreaks)} = BreakSet(source))

\* the table of a text that starts with a line break and holds another one
ScannedTwoBreaksFromZero ==
  /\ pc = "ready"
  /\ Len(lineBreaks) >= 2
  /\ lineBreaks[1] = 0
  /\ lineBreaks[2] > 1

\* C10: on the table of a source text the conversion is strictly increasing
\* in (line, character) order, and a range that srcToLineColumnRange returns
\* with positions has start <= end, the two equal exactly when the decoded
\* length is 0.
LineColStrictlyIncreasing ==
  /\ pc = "ready" =>
       \A a \in Offsets, b \in Offsets :
         a < b => PosLess(lineColPositionFromOffset(a, lineBreaks),
                          lineColPositionFromOffset(b, lineBreaks))
  /\ (last.op = "srcToLineColumnRange" /\ last.result # NullRange) =>
       /\ PosLess(last.result.start, last.result.end) \/ last.result.start = last.result.end
       /\ last.result.start = last.result.end
            <=> NumEq(sourceLocationFromSrc(last.arg[1]).length, Num(0))

\* a range that ends on a later line than it starts was returned
RangeAcrossLines ==
  /\ last.op = "srcToLineColumnRange"
  /\ last.result # NullRange
  /\ last.result.start.line < last.result.end.line
  /\ last.result.start.character > last.result.end.character

IsUnsigned(field) == field # <<>> /\ \A i \in 1..Len(field) : field[i] \in Digits

\* a range string of the form "<start>:<length>:<fileIndex>", read off the
\* characters: two colons, and digits only around them
WellFormed(s) ==
  LET colons == {i \in 1..Len(s) : s[i] = ":"}
  IN  /\ Cardinality(colons) = 2
      /\ \A i \in 1..Len(s) : s[i] \in Digits \cup {":"}
      /\ s[1] # ":" /\ s[Len(s)] # ":"
      /\ \A i \in colons : (i + 1) \notin colons

\* C5 as claimed: every malformed range string decodes to NaN components and
\* is projected to the range of two nulls.
MalformedAlwaysRejected ==
  (last.op = "srcToLineColumnRange" /\ ~WellFormed(last.arg[1])) =>
    /\ last.result = NullRange
    /\ LET location == sourceLocationFromSrc(last.arg[1])
       IN  location.start.nan \/ location.length.nan \/ location.file.nan

\* the field begins, after white space, with digits, with '+' and digits, or
\* with '-' and zeros up to its first character that is no digit
FieldNotNegative(field) ==
  LET trimmed == Drop(field, PrefixLen(field, WhiteSpace))
      body == IF trimmed # <<>> /\ trimmed[1] \in {"+", "-"} THEN Tail(trimmed) ELSE trimmed
      n == PrefixLen(body, Digits)
  IN  /\ n > 0
      /\ (trimmed[1] = "-" => \A i \in 1..n : body[i] = "0")

\* the k-th field between the colons of s, when there is one
FieldOf(s, k) ==
  LET colons == {i \in 1..Len(s) : s[i] = ":"}
      ends == {i \in colons : Cardinality({j \in colons : j < i}) = k - 1}
      begins == {i \in colons : Cardinality({j \in colons : j < i}) = k - 2}
      from == IF k = 1 THEN 1 ELSE (CHOOSE i \in begins : TRUE) + 1
      to == IF ends = {} THEN Len(s) ELSE (CHOOSE i \in ends : TRUE) - 1
  IN  SubSeq(s, from, to)

HasField(s, k) == Cardinality({i \in 1..Len(s) : s[i] = ":"}) >= k - 1

\* C5 as amended: a range string is projected to the range of two nulls
\* exactly when its first or its second field is missing or does not begin
\* with a number >= 0; a missing or non-numeric third field, further fields
\* and characters after the leading digits of a field do not reject it.
RejectedExactlyOnStartOrLength ==
  last.op = "srcToLineColumnRange" =>
    LET s == last.arg[1]
    IN  last.result = NullRange
          <=> ~(/\ HasField(s, 1) /\ FieldNotNegative(FieldOf(s, 1))
                /\ HasField(s, 2) /\ FieldNotNegative(FieldOf(s, 2)))

\* a malformed range string of one field was projected, to the range of nulls
MalformedRejected ==
  /\ last.op = "srcToLineColumnRange"
  /\ ~WellFormed(last.arg[1])
  /\ \A i \in 1..Len(last.arg[1]) : last.arg[1][i] # ":"
  /\ last.arg[1] # <<>>
  /\ last.result = NullRange

\* s begins with p
HasPrefix(s, p) == Len(s) >= Len(p) /\ SubSeq(s, 1, Len(p)) = p

\* C7: sourceLocationFromSrc of the string "s:l:f" of three natural numbers
\* in base 10 is {start: s, length: l, file: f}.
DecodeOfSerialized ==
  last.op = "sourceLocationFromSrc" =>
    \A s \in 0..MaxNum :
      HasPrefix(last.arg[1], ToDecimal(s) \o <<":">>) =>
        \A l \in 0..MaxNum :
          HasPrefix(last.arg[1], ToDecimal(s) \o <<":">> \o ToDecimal(l) \o <<":">>) =>
            \A f \in 0..MaxNum :
              last.arg[1] = Serialize(s, l, f) =>
                last.result = Location(Num(s), Num(l), Num(f))

\* "10:0:11" was decoded
DecodedTwoDigitTriple ==
  /\ last.op = "sourceLocationFromSrc"
  /\ last.arg[1] = Serialize(10, 0, 11)
  /\ last.result.start = Num(10)

\* the node carries a src that decodes to the start and the length asked for
HasLocationOf(node, location) ==
  /\ node.src.t = "string"
  /\ node.src.s # <<>>
  /\ LET decoded == sourceLocationFromSrc(node.src.s)
     IN  /\ ~decoded.start.nan /\ ~location.start.nan
         /\ decoded.start.n = location.start.n
         /\ ~decoded.length.nan /\ ~location.length.nan
         /\ decoded.length.n = location.length.n

\* the filter is absent or null
FilterAbsent(nodeType) == nodeType.t \in {"undefined", "null"}

\* the visited nodes with the location asked for and, unless the filter is
\* absent or null, with the node type of the filter, in visiting order
ExactMatches(nodeType, location, root) ==
  SelectSeq(walkFull(root),
            LAMBDA node :
              /\ HasLocationOf(node, location)
              /\ (FilterAbsent(nodeType) \/ node.nodeType = nodeType))

\* C2 as claimed: nodesAtPosition returns, in visiting order and each once,
\* exactly the visited nodes with the start and length asked for and with
\* the node type of the filter, the node type being disregarded only when the
\* filter is absent or null.
NodesAtPositionExact ==
  last.op = "nodesAtPosition" =>
    last.result = ExactMatches(last.arg[1], last.arg[2], ast)

\* the last element of a list, null for the empty list
LastOrNull(list) == IF list = <<>> THEN Null ELSE list[Len(list)]

\* C3 as claimed: findNodeAtSourceLocation returns the last element of the
\* list nodesAtPosition returns for the same filter, location and AST, and
\* none exactly when that list is empty.
FindIsLastOfNodesAtPosition ==
  last.op = "findNodeAtSourceLocation" =>
    last.result = LastOrNull(nodesAtPosition(last.arg[1], last.arg[2], ast))

LookupsExactUnlessEmptyFilter ==
  /\ (last.op = "nodesAtPosition" /\ last.arg[1] # Str(<<>>)) =>
       last.result = ExactMatches(last.arg[1], last.arg[2], ast)
  /\ (last.op = "findNodeAtSourceLocation" /\ last.arg[1] # Str(<<>>)) =>
       last.result = LastOrNull(nodesAtPosition(last.arg[1], last.arg[2], ast))

\* C9: once the object is constructed, no call changes the source text, the
\* line-break table or the AST, and a call that repeats a remembered call
\* with the same arguments returns what that call returned.
CallsLeaveStateAndRepeat ==
  /\ [][pc = "ready" => (source' = source /\ lineBreaks' = lineBreaks /\ ast' = ast)]_vars
  /\ [](last.again => last.result = first.result)

\* nodesAtPosition was called again with the arguments of the remembered
\* call, and found the two nodes of the range once more
RepeatedNodesAtPosition ==
  /\ last.again
  /\ last.op = "nodesAtPosition"
  /\ Len(last.result) = 2
  /\ first.result = last.result

====
